---- MODULE Spec2Model ----
(***************************************************************************)
(* Model of core/lib/types/src/tx/tx_execution_info.rs (zksync-era):       *)
(* TxExecutionStatus, DeduplicatedWritesMetrics and ExecutionMetrics with  *)
(* its Add / AddAssign implementations.                                    *)
(*                                                                         *)
(* Unsigned integers keep their Rust width.  A value of a w-bit type is a  *)
(* little-endian sequence of w/16 limbs, each in 0..65535, so that u32 and *)
(* usize (64-bit target) arithmetic is exact although TLC's own integers   *)
(* are 32-bit.  The operators `+` and `*` of Rust either panic (a build    *)
(* with overflow checks, the debug profile) or wrap (a build without, the  *)
(* release profile) when the result leaves the type's range; which of the  *)
(* two holds is the variable overflow_checks, chosen once per behaviour.   *)
(***************************************************************************)
EXTENDS Integers, Sequences, FiniteSets, TLC

VARIABLES
    overflow_checks,   \* build profile: TRUE = `+`/`*` panic on overflow, FALSE = wrap
    \* ---- one transaction's pipeline (SpecTx)
    raw,               \* the TransactionExecutionMetrics handed over by the VM
    has_failed,        \* the VM's failure flag for the transaction
    protocol_version,  \* the ProtocolVersionId the sizes are computed for
    status,            \* <<>> or <<TxExecutionStatus>>
    metrics,           \* <<>> or <<ExecutionMetrics>>
    writes,            \* <<>> or <<DeduplicatedWritesMetrics>>
    metrics_size,      \* <<>> or <<outcome of metrics.size()>>
    writes_size,       \* <<>> or <<outcome of writes.size(protocol_version)>>
    \* ---- batch accounting (Spec)
    txs,               \* ExecutionMetrics of the transactions sealed so far, in order
    batch,             \* outcome of the running total, built with +=
    partials           \* partial sums being combined pairwise with +

vars == <<overflow_checks, raw, has_failed, protocol_version, status, metrics,
          writes, metrics_size, writes_size, txs, batch, partials>>

txVars == <<raw, has_failed, protocol_version, status, metrics, writes,
            metrics_size, writes_size>>

batchVars == <<txs, batch, partials>>

(***************************************************************************)
(* Bounds of the model.                                                    *)
(***************************************************************************)
\* transactions sealed into one batch
MaxTxs == 3

\* protocol versions Version0 .. Version<LatestVersion> are enumerated
LatestVersion == 19

(***************************************************************************)
(* Fixed-width unsigned integers.                                          *)
(***************************************************************************)
LimbBase == 65536

U16Limbs == 1

U32Limbs == 2

UsizeLimbs == 4

\* one limb more than usize: wide enough for every exact value the checks compute
WideLimbs == UsizeLimbs + 1

ZeroWord(n) == [i \in 1..n |-> 0]

MaxWord(n) == [i \in 1..n |-> LimbBase - 1]

\* the value k < LimbBase in an n-limb type
Small(n, k) == [i \in 1..n |-> IF i = 1 THEN k ELSE 0]

\* the value LimbBase - 1 in an n-limb type: adding to it carries into limb 2
LimbMax(n) == Small(n, LimbBase - 1)

\* zero-extension of x to n limbs (n >= Len(x))
Widen(x, n) == [i \in 1..n |-> IF i <= Len(x) THEN x[i] ELSE 0]

\* the low n limbs of x (truncation modulo 2^(16n))
Low(x, n) == [i \in 1..n |-> x[i]]

RECURSIVE AddCarryInto(_, _, _)
\* the carry into limb i of x + y
AddCarryInto(x, y, i) ==
    IF i = 1 THEN 0
    ELSE (x[i - 1] + y[i - 1] + AddCarryInto(x, y, i - 1)) \div LimbBase

\* uN::overflowing_add: the wrapped sum and whether the exact sum left the range
overflowing_add(x, y) ==
    [v |-> [i \in 1..Len(x) |-> (x[i] + y[i] + AddCarryInto(x, y, i)) % LimbBase],
     overflow |-> AddCarryInto(x, y, Len(x) + 1) # 0]

RECURSIVE MulCarryInto(_, _, _)
\* the carry into limb i of x * k, for a constant 0 <= k < LimbBase
MulCarryInto(x, k, i) ==
    IF i = 1 THEN 0
    ELSE (x[i - 1] * k + MulCarryInto(x, k, i - 1)) \div LimbBase

\* uN::overflowing_mul by a constant k
overflowing_mul(x, k) ==
    [v |-> [i \in 1..Len(x) |-> (x[i] * k + MulCarryInto(x, k, i)) % LimbBase],
     overflow |-> MulCarryInto(x, k, Len(x) + 1) # 0]

(***************************************************************************)
(* Outcomes of Rust expressions: [ok |-> TRUE, v |-> value], or a panic,   *)
(* [ok |-> FALSE, v |-> the type's zero] (after a panic no value exists;   *)
(* the zero only makes two panics compare equal).                          *)
(***************************************************************************)
Val(x) == [ok |-> TRUE, v |-> x]

PanicWord(n) == [ok |-> FALSE, v |-> ZeroWord(n)]

\* the result r of an overflowing_* operation as the build's `+` / `*` gives it
Arith(r) ==
    IF overflow_checks /\ r.overflow THEN PanicWord(Len(r.v)) ELSE Val(r.v)

\* p + q on outcomes: a panic in an operand propagates
Plus(p, q) ==
    IF p.ok /\ q.ok THEN Arith(overflowing_add(p.v, q.v)) ELSE PanicWord(Len(p.v))

\* x * k for a value x and a constant k
Times(x, k) == Arith(overflowing_mul(x, k))

(***************************************************************************)
(* Items imported from other modules of the crate.                         *)
(***************************************************************************)
\* crate::writes::BYTES_PER_DERIVED_KEY
BYTES_PER_DERIVED_KEY == 32

\* crate::writes::BYTES_PER_ENUMERATION_INDEX
BYTES_PER_ENUMERATION_INDEX == 8

\* <InitialStorageWrite as SerializeCommitment>::SERIALIZED_SIZE
InitialStorageWrite_SERIALIZED_SIZE == 64

\* <RepeatedStorageWrite as SerializeCommitment>::SERIALIZED_SIZE
RepeatedStorageWrite_SERIALIZED_SIZE == 40

\* <L2ToL1Log as SerializeCommitment>::SERIALIZED_SIZE
L2ToL1Log_SERIALIZED_SIZE == 88

\* crate::ProtocolVersionId: a fieldless enum Version0, Version1, ... whose derived
\* ordering is the order of the variants; Version<n> is modelled as the number n
ProtocolVersionId == 0..LatestVersion

Version17 == 17

(***************************************************************************)
(* TxExecutionStatus                                                       *)
(***************************************************************************)
TxExecutionStatus == {"Success", "Failure"}

\* mutant: the two arms exchanged
from_has_failed_Inverted(failed) == IF failed THEN "Success" ELSE "Failure"

from_has_failed(failed) == IF failed THEN "Failure" ELSE "Success"

(***************************************************************************)
(* crate::fee::TransactionExecutionMetrics: the fields this file reads,    *)
(* each with the type of the field it is copied into.                      *)
(***************************************************************************)
UsizeFields ==
    {"initial_storage_writes", "repeated_storage_writes", "total_updated_values_size",
     "gas_used", "published_bytecode_bytes", "l2_l1_long_messages", "l2_l1_logs",
     "contracts_used", "vm_events", "storage_logs", "total_log_queries"}

U32Fields == {"cycles_used", "computational_gas_used"}

U16Fields == {"contracts_deployed"}

RawFields == UsizeFields \cup U32Fields \cup U16Fields

\* the number of limbs of field f
Limbs(f) ==
    IF f \in U16Fields THEN U16Limbs
    ELSE IF f \in U32Fields THEN U32Limbs
    ELSE UsizeLimbs

\* the fields of ExecutionMetrics and of DeduplicatedWritesMetrics
MetricFields ==
    {"gas_used", "published_bytecode_bytes", "l2_l1_long_messages", "l2_l1_logs",
     "contracts_used", "contracts_deployed", "vm_events", "storage_logs",
     "total_log_queries", "cycles_used", "computational_gas_used"}

WriteFields ==
    {"initial_storage_writes", "repeated_storage_writes", "total_updated_values_size"}

(***************************************************************************)
(* DeduplicatedWritesMetrics                                               *)
(***************************************************************************)
DeduplicatedWritesMetrics_default ==
    [initial_storage_writes |-> ZeroWord(UsizeLimbs),
     repeated_storage_writes |-> ZeroWord(UsizeLimbs),
     total_updated_values_size |-> ZeroWord(UsizeLimbs)]

DeduplicatedWritesMetrics_from_tx_metrics(tx_metrics) ==
    [initial_storage_writes |-> tx_metrics.initial_storage_writes,
     repeated_storage_writes |-> tx_metrics.repeated_storage_writes,
     total_updated_values_size |-> tx_metrics.total_updated_values_size]

\* mutant: the cutover compared with > instead of >=
DeduplicatedWritesMetrics_size_StrictlyAbove(self, version) ==
    IF version > Version17
    THEN Plus(Plus(Val(self.total_updated_values_size),
                   Times(self.initial_storage_writes, BYTES_PER_DERIVED_KEY)),
              Times(self.repeated_storage_writes, BYTES_PER_ENUMERATION_INDEX))
    ELSE Plus(Times(self.initial_storage_writes, InitialStorageWrite_SERIALIZED_SIZE),
              Times(self.repeated_storage_writes, RepeatedStorageWrite_SERIALIZED_SIZE))

\* mutant: the legacy arm also counts the bytes of the updated values
DeduplicatedWritesMetrics_size_LegacyCountsValues(self, version) ==
    IF version >= Version17
    THEN Plus(Plus(Val(self.total_updated_values_size),
                   Times(self.initial_storage_writes, BYTES_PER_DERIVED_KEY)),
              Times(self.repeated_storage_writes, BYTES_PER_ENUMERATION_INDEX))
    ELSE Plus(Plus(Val(self.total_updated_values_size),
                   Times(self.initial_storage_writes, InitialStorageWrite_SERIALIZED_SIZE)),
              Times(self.repeated_storage_writes, RepeatedStorageWrite_SERIALIZED_SIZE))

DeduplicatedWritesMetrics_size(self, version) ==
    IF version >= Version17
    THEN Plus(Plus(Val(self.total_updated_values_size),
                   Times(self.initial_storage_writes, BYTES_PER_DERIVED_KEY)),
              Times(self.repeated_storage_writes, BYTES_PER_ENUMERATION_INDEX))
    ELSE Plus(Times(self.initial_storage_writes, InitialStorageWrite_SERIALIZED_SIZE),
              Times(self.repeated_storage_writes, RepeatedStorageWrite_SERIALIZED_SIZE))

(***************************************************************************)
(* ExecutionMetrics                                                        *)
(***************************************************************************)
\* #[derive(Default)]: every counter 0
ExecutionMetrics_default ==
    [gas_used |-> ZeroWord(UsizeLimbs),
     published_bytecode_bytes |-> ZeroWord(UsizeLimbs),
     l2_l1_long_messages |-> ZeroWord(UsizeLimbs),
     l2_l1_logs |-> ZeroWord(UsizeLimbs),
     contracts_used |-> ZeroWord(UsizeLimbs),
     contracts_deployed |-> ZeroWord(U16Limbs),
     vm_events |-> ZeroWord(UsizeLimbs),
     storage_logs |-> ZeroWord(UsizeLimbs),
     total_log_queries |-> ZeroWord(UsizeLimbs),
     cycles_used |-> ZeroWord(U32Limbs),
     computational_gas_used |-> ZeroWord(U32Limbs)]

\* mutant: storage_logs and vm_events exchanged
ExecutionMetrics_from_tx_metrics_Swapped(tx_metrics) ==
    [published_bytecode_bytes |-> tx_metrics.published_bytecode_bytes,
     l2_l1_long_messages |-> tx_metrics.l2_l1_long_messages,
     l2_l1_logs |-> tx_metrics.l2_l1_logs,
     contracts_deployed |-> tx_metrics.contracts_deployed,
     contracts_used |-> tx_metrics.contracts_used,
     gas_used |-> tx_metrics.gas_used,
     storage_logs |-> tx_metrics.vm_events,
     vm_events |-> tx_metrics.storage_logs,
     total_log_queries |-> tx_metrics.total_log_queries,
     cycles_used |-> tx_metrics.cycles_used,
     computational_gas_used |-> tx_metrics.computational_gas_used]

ExecutionMetrics_from_tx_metrics(tx_metrics) ==
    [published_bytecode_bytes |-> tx_metrics.published_bytecode_bytes,
     l2_l1_long_messages |-> tx_metrics.l2_l1_long_messages,
     l2_l1_logs |-> tx_metrics.l2_l1_logs,
     contracts_deployed |-> tx_metrics.contracts_deployed,
     contracts_used |-> tx_metrics.contracts_used,
     gas_used |-> tx_metrics.gas_used,
     storage_logs |-> tx_metrics.storage_logs,
     vm_events |-> tx_metrics.vm_events,
     total_log_queries |-> tx_metrics.total_log_queries,
     cycles_used |-> tx_metrics.cycles_used,
     computational_gas_used |-> tx_metrics.computational_gas_used]

\* mutant: the log count is not multiplied by the record size
ExecutionMetrics_size_Unscaled(self) ==
    Plus(Plus(Val(self.l2_l1_logs), Val(self.l2_l1_long_messages)),
         Val(self.published_bytecode_bytes))

ExecutionMetrics_size(self) ==
    Plus(Plus(Times(self.l2_l1_logs, L2ToL1Log_SERIALIZED_SIZE),
              Val(self.l2_l1_long_messages)),
         Val(self.published_bytecode_bytes))

\* a struct expression whose field initialisers have the outcomes o[f]: it panics
\* when an initialiser does
StructOf(o, default) ==
    IF \A f \in DOMAIN o : o[f].ok
    THEN Val([f \in DOMAIN o |-> o[f].v])
    ELSE [ok |-> FALSE, v |-> default]

\* mutant: l2_l1_logs takes the other operand's l2_l1_long_messages
Add_MixedFields(self, other) ==
    StructOf(
        [published_bytecode_bytes |->
             Plus(Val(self.published_bytecode_bytes), Val(other.published_bytecode_bytes)),
         contracts_deployed |->
             Plus(Val(self.contracts_deployed), Val(other.contracts_deployed)),
         contracts_used |-> Plus(Val(self.contracts_used), Val(other.contracts_used)),
         l2_l1_long_messages |->
             Plus(Val(self.l2_l1_long_messages), Val(other.l2_l1_long_messages)),
         l2_l1_logs |-> Plus(Val(self.l2_l1_logs), Val(other.l2_l1_long_messages)),
         gas_used |-> Plus(Val(self.gas_used), Val(other.gas_used)),
         vm_events |-> Plus(Val(self.vm_events), Val(other.vm_events)),
         storage_logs |-> Plus(Val(self.storage_logs), Val(other.storage_logs)),
         total_log_queries |->
             Plus(Val(self.total_log_queries), Val(other.total_log_queries)),
         cycles_used |-> Plus(Val(self.cycles_used), Val(other.cycles_used)),
         computational_gas_used |->
             Plus(Val(self.computational_gas_used), Val(other.computational_gas_used))],
        ExecutionMetrics_default)

\* mutant: vm_events adds self to itself
Add_SelfTwice(self, other) ==
    StructOf(
        [published_bytecode_bytes |->
             Plus(Val(self.published_bytecode_bytes), Val(other.published_bytecode_bytes)),
         contracts_deployed |->
             Plus(Val(self.contracts_deployed), Val(other.contracts_deployed)),
         contracts_used |-> Plus(Val(self.contracts_used), Val(other.contracts_used)),
         l2_l1_long_messages |->
             Plus(Val(self.l2_l1_long_messages), Val(other.l2_l1_long_messages)),
         l2_l1_logs |-> Plus(Val(self.l2_l1_logs), Val(other.l2_l1_logs)),
         gas_used |-> Plus(Val(self.gas_used), Val(other.gas_used)),
         vm_events |-> Plus(Val(self.vm_events), Val(self.vm_events)),
         storage_logs |-> Plus(Val(self.storage_logs), Val(other.storage_logs)),
         total_log_queries |->
             Plus(Val(self.total_log_queries), Val(other.total_log_queries)),
         cycles_used |-> Plus(Val(self.cycles_used), Val(other.cycles_used)),
         computational_gas_used |->
             Plus(Val(self.computational_gas_used), Val(other.computational_gas_used))],
        ExecutionMetrics_default)

\* impl Add for ExecutionMetrics
Add(self, other) ==
    StructOf(
        [published_bytecode_bytes |->
             Plus(Val(self.published_bytecode_bytes), Val(other.published_bytecode_bytes)),
         contracts_deployed |->
             Plus(Val(self.contracts_deployed), Val(other.contracts_deployed)),
         contracts_used |-> Plus(Val(self.contracts_used), Val(other.contracts_used)),
         l2_l1_long_messages |->
             Plus(Val(self.l2_l1_long_messages), Val(other.l2_l1_long_messages)),
         l2_l1_logs |-> Plus(Val(self.l2_l1_logs), Val(other.l2_l1_logs)),
         gas_used |-> Plus(Val(self.gas_used), Val(other.gas_used)),
         vm_events |-> Plus(Val(self.vm_events), Val(other.vm_events)),
         storage_logs |-> Plus(Val(self.storage_logs), Val(other.storage_logs)),
         total_log_queries |->
             Plus(Val(self.total_log_queries), Val(other.total_log_queries)),
         cycles_used |-> Plus(Val(self.cycles_used), Val(other.cycles_used)),
         computational_gas_used |->
             Plus(Val(self.computational_gas_used), Val(other.computational_gas_used))],
        ExecutionMetrics_default)

\* impl AddAssign for ExecutionMetrics: *self = *self + other
add_assign(self, other) == Add(self, other)

\* the panicked outcome of an ExecutionMetrics expression
PanicMetrics == [ok |-> FALSE, v |-> ExecutionMetrics_default]

\* p + q for outcomes p, q of ExecutionMetrics expressions
AddOutcomes(p, q) == IF p.ok /\ q.ok THEN Add(p.v, q.v) ELSE PanicMetrics

(***************************************************************************)
(* Inputs: the raw records the VM hands over.  BaseRaw has a different     *)
(* small value in every field; the others put one field at a value where   *)
(* the arithmetic carries between limbs or leaves the type's range.        *)
(***************************************************************************)
ZeroRaw == [f \in RawFields |-> ZeroWord(Limbs(f))]

BaseRaw ==
    [initial_storage_writes |-> Small(UsizeLimbs, 2),
     repeated_storage_writes |-> Small(UsizeLimbs, 3),
     total_updated_values_size |-> Small(UsizeLimbs, 100),
     gas_used |-> Small(UsizeLimbs, 7),
     published_bytecode_bytes |-> Small(UsizeLimbs, 500),
     l2_l1_long_messages |-> Small(UsizeLimbs, 10),
     l2_l1_logs |-> Small(UsizeLimbs, 4),
     contracts_used |-> Small(UsizeLimbs, 5),
     contracts_deployed |-> Small(U16Limbs, 1),
     vm_events |-> Small(UsizeLimbs, 9),
     storage_logs |-> Small(UsizeLimbs, 6),
     total_log_queries |-> Small(UsizeLimbs, 11),
     cycles_used |-> Small(U32Limbs, 12),
     computational_gas_used |-> Small(U32Limbs, 13)]

\* fields put at the maximum of their type
MaxCases ==
    {"contracts_deployed", "cycles_used", "l2_l1_logs", "l2_l1_long_messages",
     "initial_storage_writes", "total_updated_values_size"}

\* fields of DeduplicatedWritesMetrics put at 65535, the largest value of the lowest limb
CarryCases == {"repeated_storage_writes", "total_updated_values_size"}

\* a u32 and a usize counter of ExecutionMetrics at 65535
CarryRaw ==
    [BaseRaw EXCEPT !.computational_gas_used = LimbMax(U32Limbs),
                    !.published_bytecode_bytes = LimbMax(UsizeLimbs)]

RawInputs ==
    {ZeroRaw, BaseRaw, CarryRaw}
        \cup {[BaseRaw EXCEPT ![f] = MaxWord(Limbs(f))] : f \in MaxCases}
        \cup {[BaseRaw EXCEPT ![f] = LimbMax(Limbs(f))] : f \in CarryCases}

(***************************************************************************)
(* SpecTx: one transaction at a time.  The VM hands over a raw record, a   *)
(* failure flag and the protocol version; the status, the two projections  *)
(* and the two sizes are then computed from them.                          *)
(***************************************************************************)
InitTx ==
    /\ overflow_checks \in BOOLEAN
    /\ raw \in RawInputs
    /\ has_failed \in BOOLEAN
    /\ protocol_version \in ProtocolVersionId
    /\ status = <<>>
    /\ metrics = <<>>
    /\ writes = <<>>
    /\ metrics_size = <<>>
    /\ writes_size = <<>>
    /\ txs = <<>>
    /\ batch = Val(ExecutionMetrics_default)
    /\ partials = <<>>

\* the VM finishes the next transaction
Execute(r, failed, version) ==
    /\ status # <<>>
    /\ metrics_size # <<>>
    /\ writes_size # <<>>
    /\ raw' = r
    /\ has_failed' = failed
    /\ protocol_version' = version
    /\ status' = <<>>
    /\ metrics' = <<>>
    /\ writes' = <<>>
    /\ metrics_size' = <<>>
    /\ writes_size' = <<>>
    /\ UNCHANGED <<overflow_checks, batchVars>>

Classify ==
    /\ status = <<>>
    /\ status' = <<from_has_failed(has_failed)>>
    /\ UNCHANGED <<overflow_checks, raw, has_failed, protocol_version, metrics, writes,
                   metrics_size, writes_size, batchVars>>

ProjectMetrics ==
    /\ metrics = <<>>
    /\ metrics' = <<ExecutionMetrics_from_tx_metrics(raw)>>
    /\ UNCHANGED <<overflow_checks, raw, has_failed, protocol_version, status, writes,
                   metrics_size, writes_size, batchVars>>

ProjectWrites ==
    /\ writes = <<>>
    /\ writes' = <<DeduplicatedWritesMetrics_from_tx_metrics(raw)>>
    /\ UNCHANGED <<overflow_checks, raw, has_failed, protocol_version, status, metrics,
                   metrics_size, writes_size, batchVars>>

MeasureMetrics ==
    /\ metrics # <<>>
    /\ metrics_size = <<>>
    /\ metrics_size' = <<ExecutionMetrics_size(metrics[1])>>
    /\ UNCHANGED <<overflow_checks, raw, has_failed, protocol_version, status, metrics,
                   writes, writes_size, batchVars>>

MeasureWrites ==
    /\ writes # <<>>
    /\ writes_size = <<>>
    /\ writes_size' = <<DeduplicatedWritesMetrics_size(writes[1], protocol_version)>>
    /\ UNCHANGED <<overflow_checks, raw, has_failed, protocol_version, status, metrics,
                   writes, metrics_size, batchVars>>

NextTx ==
    \/ \E r \in RawInputs, failed \in BOOLEAN, version \in ProtocolVersionId :
           Execute(r, failed, version)
    \/ Classify
    \/ ProjectMetrics
    \/ ProjectWrites
    \/ MeasureMetrics
    \/ MeasureWrites

SpecTx == InitTx /\ [][NextTx]_vars

(***************************************************************************)
(* Spec: batch accounting.  Every sealed transaction's ExecutionMetrics is *)
(* folded into the running total with += and is also handed, as a partial  *)
(* sum, to a pairwise reduction with + that combines any two partial sums  *)
(* in either order.                                                        *)
(***************************************************************************)
Init ==
    /\ overflow_checks \in BOOLEAN
    /\ raw = ZeroRaw
    /\ has_failed = FALSE
    /\ protocol_version = Version17
    /\ status = <<>>
    /\ metrics = <<>>
    /\ writes = <<>>
    /\ metrics_size = <<>>
    /\ writes_size = <<>>
    /\ txs = <<>>
    /\ batch = Val(ExecutionMetrics_default)
    /\ partials = <<>>

\* seal the transaction with raw record r: batch += from_tx_metrics(r).  After a
\* panic of += the accounting thread is gone and seals nothing more.
Seal(r) ==
    /\ Len(txs) < MaxTxs
    /\ batch.ok
    /\ LET m == ExecutionMetrics_from_tx_metrics(r) IN
           /\ txs' = Append(txs, m)
           /\ batch' = add_assign(batch.v, m)
           /\ partials' = Append(partials, Val(m))
    /\ UNCHANGED <<overflow_checks, txVars>>

\* the sequence s without its element j
Without(s, j) == [k \in 1..(Len(s) - 1) |-> IF k < j THEN s[k] ELSE s[k + 1]]

\* replace the partial sums i and j by partials[i] + partials[j]
Merge(i, j) ==
    /\ i # j
    /\ partials' = Without([partials EXCEPT ![i] = AddOutcomes(partials[i], partials[j])], j)
    /\ UNCHANGED <<overflow_checks, txVars, txs, batch>>

Next ==
    \/ \E r \in RawInputs : Seal(r)
    \/ \E i \in 1..Len(partials), j \in 1..Len(partials) : Merge(i, j)

Spec == Init /\ [][Next]_vars

(***************************************************************************)
(* Exact (unbounded) values the claims compare the code's results with.    *)
(***************************************************************************)
\* x + y and x * k computed in the limbs of x, for operands that cannot leave them
ExactAdd(x, y) == overflowing_add(x, y).v

ExactMul(x, k) == overflowing_mul(x, k).v

RECURSIVE ExactTotal(_, _, _)
\* the exact sum of field f over the first k elements of s, in one limb more than f has
ExactTotal(s, f, k) ==
    IF k = 0 THEN ZeroWord(Limbs(f) + 1)
    ELSE ExactAdd(ExactTotal(s, f, k - 1), Widen(s[k][f], Limbs(f) + 1))

\* the metrics value m holds exactly the field-wise sum of the sequence s
IsExactTotal(m, s) ==
    \A f \in MetricFields : Widen(m[f], Limbs(f) + 1) = ExactTotal(s, f, Len(s))

\* a + b leaves no counter's range
NoOverflow(a, b) == \A f \in MetricFields : ~overflowing_add(a[f], b[f]).overflow

\* what an expression of type usize with the exact value x (in WideLimbs limbs) gives
\* when its partial results only grow: x if it fits, else a panic or x modulo 2^64
AsUsize(x) ==
    IF x[WideLimbs] # 0 /\ overflow_checks
    THEN PanicWord(UsizeLimbs)
    ELSE Val(Low(x, UsizeLimbs))

Wide(x) == Widen(x, WideLimbs)

\* the permutations of 1..n
Perms(n) == {p \in [1..n -> 1..n] : \A i, j \in 1..n : p[i] = p[j] => i = j}

RECURSIVE FoldInOrder(_, _)
\* the running total after += of txs[p[1]], ..., txs[p[k]] onto the default value
FoldInOrder(p, k) ==
    IF k = 0 THEN Val(ExecutionMetrics_default)
    ELSE LET acc == FoldInOrder(p, k - 1) IN
             IF acc.ok THEN add_assign(acc.v, txs[p[k]]) ELSE PanicMetrics

RECURSIVE SizesTotal(_)
\* txs[1].size() + ... + txs[k].size(), accumulated in a usize
SizesTotal(k) ==
    IF k = 0 THEN Val(ZeroWord(UsizeLimbs))
    ELSE Plus(SizesTotal(k - 1), ExecutionMetrics_size(txs[k]))

\* m.size() of an outcome m
SizeOf(m) == IF m.ok THEN ExecutionMetrics_size(m.v) ELSE PanicWord(UsizeLimbs)

(***************************************************************************)
(* Claims about the additive merge (specification Spec).                   *)
(***************************************************************************)

\* C1: addition of ExecutionMetrics is associative and commutative: for the sealed
\* metrics a, b, c, (a+b)+c and a+(b+c) have the same outcome in all eleven
\* counters, and so have a+b and b+a.
C1_AddAssociativeCommutative ==
    /\ Len(txs) >= 2 => Add(txs[1], txs[2]) = Add(txs[2], txs[1])
    /\ Len(txs) >= 3 =>
           AddOutcomes(Add(txs[1], txs[2]), Val(txs[3]))
               = AddOutcomes(Val(txs[1]), Add(txs[2], txs[3]))

\* C1 witness: three different non-zero metrics were sealed and summed to a value
C1_Witness ==
    /\ Len(txs) = 3
    /\ txs[1] # txs[2] /\ txs[2] # txs[3] /\ txs[1] # txs[3]
    /\ \A k \in 1..3 : txs[k] # ExecutionMetrics_default
    /\ AddOutcomes(Add(txs[1], txs[2]), Val(txs[3])).ok
    /\ AddOutcomes(Add(txs[1], txs[2]), Val(txs[3])).v # ExecutionMetrics_default

\* C2: aggregation never wraps silently: whenever + or += yields a value (no panic),
\* that value is the exact field-wise sum of the operands, in every counter.
C2_NoSilentWrap ==
    /\ batch.ok => IsExactTotal(batch.v, txs)
    /\ Len(txs) >= 2 => (Add(txs[1], txs[2]).ok => NoOverflow(txs[1], txs[2]))

\* C4: every merge order and tree shape gives the same batch total, equal to the
\* field-wise sum of the eleven counters: the += fold in every permutation and the
\* pairwise reduction, once it has combined everything, agree with the running
\* total, and a total that is a value is the exact sum.
C4_OrderIndependent ==
    /\ \A p \in Perms(Len(txs)) : FoldInOrder(p, Len(txs)) = batch
    /\ Len(partials) = 1 => partials[1] = batch

C4_AnyOrderGivesFieldwiseSum ==
    /\ C4_OrderIndependent
    /\ Len(partials) = 1 /\ partials[1].ok => IsExactTotal(partials[1].v, txs)

\* C5: the default (all-zero) ExecutionMetrics is the additive identity: a + zero
\* yields a, in all eleven counters, for every sealed a.
C5_ZeroIsIdentity ==
    \A k \in 1..Len(txs) : Add(txs[k], ExecutionMetrics_default) = Val(txs[k])

\* C5 witness: a metrics value with every counter non-zero was sealed
C5_Witness ==
    \E k \in 1..Len(txs) :
        \A f \in MetricFields : txs[k][f] # ZeroWord(Limbs(f))

\* C9: size is additive over merge: when a + b leaves no counter's range,
\* (a + b).size() has the outcome of a.size() + b.size(); and a running total that is
\* the exact sum of the sealed metrics has the size outcome of the sum of their sizes.
C9_SizeAdditive ==
    /\ Len(txs) >= 2 /\ NoOverflow(txs[1], txs[2]) =>
           SizeOf(Add(txs[1], txs[2]))
               = Plus(ExecutionMetrics_size(txs[1]), ExecutionMetrics_size(txs[2]))
    /\ batch.ok /\ IsExactTotal(batch.v, txs) => SizeOf(batch) = SizesTotal(Len(txs))

\* C9 witness: three metrics with non-zero sizes were merged without overflow and the
\* size of the total, which carries between limbs, is a value
C9_Witness ==
    /\ Len(txs) = 3
    /\ batch.ok /\ IsExactTotal(batch.v, txs)
    /\ \A k \in 1..3 : ExecutionMetrics_size(txs[k]).v # ZeroWord(UsizeLimbs)
    /\ SizeOf(batch).ok
    /\ SizeOf(batch).v[2] # 0

(***************************************************************************)
(* Claims about one transaction's values (specification SpecTx).           *)
(***************************************************************************)
\* the exact value of the new encoding's formula for w
ExactNewEncoding(w) ==
    ExactAdd(ExactAdd(Wide(w.total_updated_values_size),
                      ExactMul(Wide(w.initial_storage_writes), BYTES_PER_DERIVED_KEY)),
             ExactMul(Wide(w.repeated_storage_writes), BYTES_PER_ENUMERATION_INDEX))

\* the exact value of the legacy encoding's formula for w
ExactLegacyEncoding(w) ==
    ExactAdd(ExactMul(Wide(w.initial_storage_writes), InitialStorageWrite_SERIALIZED_SIZE),
             ExactMul(Wide(w.repeated_storage_writes), RepeatedStorageWrite_SERIALIZED_SIZE))

\* the exact value of ExecutionMetrics::size's formula for m
ExactMetricsSize(m) ==
    ExactAdd(ExactAdd(ExactMul(Wide(m.l2_l1_logs), L2ToL1Log_SERIALIZED_SIZE),
                      Wide(m.l2_l1_long_messages)),
             Wide(m.published_bytecode_bytes))

\* the exact value x (in WideLimbs limbs) is in the range of usize
FitsUsize(x) == x[WideLimbs] = 0

\* C3: DeduplicatedWritesMetrics::size picks its formula by version >= Version17
\* alone: at every version at or above Version17 it gives the new encoding's formula,
\* at every version below the legacy one, evaluated in usize.
C3_SizeSelectedByVersion ==
    writes_size # <<>> =>
        /\ writes_size[1]
               = AsUsize(IF protocol_version >= Version17
                         THEN ExactNewEncoding(writes[1])
                         ELSE ExactLegacyEncoding(writes[1]))
        /\ \A v \in ProtocolVersionId :
               DeduplicatedWritesMetrics_size(writes[1], v)
                   = AsUsize(IF v >= Version17 THEN ExactNewEncoding(writes[1])
                                               ELSE ExactLegacyEncoding(writes[1]))

\* C3 witness: 2 initial and 3 repeated writes with 100 bytes of values were measured
\* at the cutover version itself and gave 100 + 32*2 + 8*3 = 188
C3_Witness ==
    /\ writes_size = <<Val(Small(UsizeLimbs, 188))>>
    /\ protocol_version = Version17
    /\ writes = <<DeduplicatedWritesMetrics_from_tx_metrics(BaseRaw)>>

\* C6: ExecutionMetrics::size gives l2_l1_logs * L2ToL1Log::SERIALIZED_SIZE +
\* l2_l1_long_messages + published_bytecode_bytes, evaluated in usize, and the same
\* for every metrics value that differs only in the other eight counters.
C6_MetricsSizeFormula ==
    /\ metrics # <<>> =>
           /\ ExecutionMetrics_size(metrics[1]) = AsUsize(ExactMetricsSize(metrics[1]))
           /\ \A r \in RawInputs :
                  ExecutionMetrics_size(
                      [ExecutionMetrics_from_tx_metrics(r) EXCEPT
                           !.l2_l1_logs = metrics[1].l2_l1_logs,
                           !.l2_l1_long_messages = metrics[1].l2_l1_long_messages,
                           !.published_bytecode_bytes = metrics[1].published_bytecode_bytes])
                      = ExecutionMetrics_size(metrics[1])
    /\ metrics_size # <<>> => metrics_size[1] = AsUsize(ExactMetricsSize(metrics[1]))

\* C6 witness: 4 logs, 10 bytes of long messages and 500 bytes of bytecode were
\* measured and gave 4*88 + 10 + 500 = 862
C6_Witness ==
    /\ metrics_size = <<Val(Small(UsizeLimbs, 862))>>
    /\ metrics[1].l2_l1_logs = Small(UsizeLimbs, 4)
    /\ metrics[1].l2_l1_long_messages = Small(UsizeLimbs, 10)
    /\ metrics[1].published_bytecode_bytes = Small(UsizeLimbs, 500)

\* C7: both projections copy every named field of the raw record unchanged: the
\* eleven fields of ExecutionMetrics and the three of DeduplicatedWritesMetrics
\* each equal the raw record's field of the same name.
C7_ProjectionsCopyFields ==
    /\ metrics # <<>> =>
           /\ DOMAIN metrics[1] = MetricFields
           /\ \A f \in MetricFields : metrics[1][f] = raw[f]
    /\ writes # <<>> =>
           /\ DOMAIN writes[1] = WriteFields
           /\ \A f \in WriteFields : writes[1][f] = raw[f]

\* C7 witness: a raw record whose fields all differ was projected both ways
C7_Witness ==
    /\ metrics # <<>>
    /\ writes # <<>>
    /\ \A f, g \in RawFields : f # g => raw[f] # raw[g]

\* C8: from_has_failed maps true to Failure and false to Success, and the status is
\* never anything else.
C8_StatusMapping ==
    status # <<>> =>
        /\ status[1] \in TxExecutionStatus
        /\ has_failed => status[1] = "Failure"
        /\ ~has_failed => status[1] = "Success"

\* C8 witness: a failed transaction was classified
C8_Witness == status # <<>> /\ has_failed

\* the values of total_updated_values_size the inputs take
OtherTotals == {r.total_updated_values_size : r \in RawInputs}

\* C10: below Version17 the size is the same whatever total_updated_values_size is;
\* from Version17 on, two sizes that are in range differ by exactly the difference
\* of the two total_updated_values_size (size2 + total1 = size1 + total2).
C10_LegacyIgnoresValueBytes ==
    writes_size # <<>> =>
        \A t \in OtherTotals :
            LET w1 == writes[1]
                w2 == [w1 EXCEPT !.total_updated_values_size = t]
                s1 == writes_size[1]
                s2 == DeduplicatedWritesMetrics_size(w2, protocol_version)
            IN  /\ protocol_version < Version17 => s1 = s2
                /\ protocol_version >= Version17
                     /\ FitsUsize(ExactNewEncoding(w1)) /\ FitsUsize(ExactNewEncoding(w2)) =>
                       /\ s1.ok /\ s2.ok
                       /\ ExactAdd(Wide(s2.v), Wide(w1.total_updated_values_size))
                              = ExactAdd(Wide(s1.v), Wide(t))

\* C10 witness: writes with 65535 bytes of values were measured below Version17 and
\* gave 2*64 + 3*40 = 248, the size of the same writes with 100 bytes of values
C10_Witness ==
    /\ writes_size = <<Val(Small(UsizeLimbs, 248))>>
    /\ protocol_version < Version17
    /\ writes[1].total_updated_values_size = LimbMax(UsizeLimbs)

====
